---- MODULE Spec2Model ----
(***************************************************************************)
(* Name-classification engine of the ETP finder (src/src/detectors.py,     *)
(* src/src/constants.py).  A security name is a sequence of characters;    *)
(* the compiled patterns of the Pattern Library are regular-expression     *)
(* trees, matched character by character with Python's re semantics        *)
(* (word boundaries, optional parts, negative lookahead, IGNORECASE).      *)
(***************************************************************************)
EXTENDS Integers, Sequences, FiniteSets, TLC

(* ---------------------------------------------------------------------- *)
(* Bounds of the model                                                     *)
(* ---------------------------------------------------------------------- *)
\* A security name supplied by the feed is made of at most MaxParts parts.
MaxParts == 3
\* detect is called at most MaxCalls times in a row.
MaxCalls == 2
\* run() scans at most MaxRows rows.
MaxRows == 3

(* ---------------------------------------------------------------------- *)
(* Characters and strings                                                  *)
(* ---------------------------------------------------------------------- *)
Uppers == <<"A", "B", "C", "D", "E", "F", "G", "H", "I", "J", "K", "L", "M", "N", "O", "P", "Q", "R", "S", "T", "U", "V", "W", "X", "Y", "Z">>
Lowers == <<"a", "b", "c", "d", "e", "f", "g", "h", "i", "j", "k", "l", "m", "n", "o", "p", "q", "r", "s", "t", "u", "v", "w", "x", "y", "z">>
Digits == <<"0", "1", "2", "3", "4", "5", "6", "7", "8", "9">>
Range(f) == {f[k] : k \in DOMAIN f}

\* str.lower() / str.upper() on one character
LowerOf == [c \in Range(Uppers) |-> Lowers[CHOOSE k \in DOMAIN Uppers : Uppers[k] = c]]
UpperOf == [c \in Range(Lowers) |-> Uppers[CHOOSE k \in DOMAIN Lowers : Lowers[k] = c]]
ToLower(s) == [k \in DOMAIN s |-> IF s[k] \in DOMAIN LowerOf THEN LowerOf[s[k]] ELSE s[k]]
ToUpper(s) == [k \in DOMAIN s |-> IF s[k] \in DOMAIN UpperOf THEN UpperOf[s[k]] ELSE s[k]]

\* \s and \w of Python's re on the characters of the model
Spaces == {" ", "\t"}
WordChars == Range(Uppers) \cup Range(Lowers) \cup Range(Digits) \cup {"_"}
Letters == Range(Uppers) \cup Range(Lowers)

\* Python's None
None == "None"

(* ---------------------------------------------------------------------- *)
(* Regular expressions (Python re)                                         *)
(* ---------------------------------------------------------------------- *)
Lit(s) == [t |-> "lit", s |-> s]
Cls(c) == [t |-> "cls", c |-> c]
Alt(a) == [t |-> "alt", a |-> a]
Cat(a) == [t |-> "cat", a |-> a]
Opt(r) == [t |-> "opt", r |-> r]
Star(r) == [t |-> "star", r |-> r]
Rep(r, lo, hi) == [t |-> "rep", r |-> r, lo |-> lo, hi |-> hi]
NotAhead(r) == [t |-> "nla", r |-> r]
WB == [t |-> "wb"]
WS == Cls(Spaces)
Plus(r) == Cat(<<r, Star(r)>>)

IsWordAt(s, i) == i >= 1 /\ i <= Len(s) /\ s[i] \in WordChars
\* \b : exactly one of the characters before and after position i is a word character
AtWordBoundary(s, i) == IsWordAt(s, i - 1) # IsWordAt(s, i)
\* a text under search by patterns compiled with re.IGNORECASE (the patterns are
\* written in lower case): its case-folded characters and the positions of its
\* word boundaries
Subject(text) ==
  LET s == ToLower(text)
  IN [s |-> s, b |-> {i \in 1..(Len(s) + 1) : AtWordBoundary(s, i)}]

\* Ends(r, x, i): the positions j such that r matches x.s[i .. j-1]
RECURSIVE Ends(_, _, _)
RECURSIVE CatEnds(_, _, _, _)
RECURSIVE StarEnds(_, _, _, _)
RECURSIVE RepEnds(_, _, _, _)
Ends(r, x, i) ==
  CASE r.t = "lit" ->
         IF i + Len(r.s) - 1 <= Len(x.s) /\ SubSeq(x.s, i, i + Len(r.s) - 1) = r.s
         THEN {i + Len(r.s)} ELSE {}
    [] r.t = "wb" -> IF i \in x.b THEN {i} ELSE {}
    [] r.t = "alt" -> UNION {Ends(r.a[k], x, i) : k \in DOMAIN r.a}
    [] r.t = "cat" -> CatEnds(r.a, x, {i}, 1)
    [] r.t = "cls" -> IF i <= Len(x.s) /\ x.s[i] \in r.c THEN {i + 1} ELSE {}
    [] r.t = "opt" -> {i} \cup Ends(r.r, x, i)
    [] r.t = "star" -> StarEnds(r.r, x, {i}, {i})
    [] r.t = "rep" -> RepEnds(r, x, {i}, 0)
    [] r.t = "nla" -> IF Ends(r.r, x, i) = {} THEN {i} ELSE {}
CatEnds(a, x, from, k) ==
  IF k > Len(a) \/ from = {} THEN from
  ELSE CatEnds(a, x, UNION {Ends(a[k], x, j) : j \in from}, k + 1)
StarEnds(r, x, acc, frontier) ==
  LET nxt == UNION {Ends(r, x, j) : j \in frontier} \ acc
  IN IF nxt = {} THEN acc ELSE StarEnds(r, x, acc \cup nxt, nxt)
\* r{lo,hi}: from holds the positions reached after n repetitions
RepEnds(r, x, from, n) ==
  LET here == IF n >= r.lo THEN from ELSE {}
  IN IF n = r.hi \/ from = {} THEN here
     ELSE here \cup RepEnds(r, x, UNION {Ends(r.r, x, j) : j \in from}, n + 1)

\* a pattern that begins with \b can match at a word boundary only
RECURSIVE StartsAtBoundary(_)
StartsAtBoundary(r) ==
  CASE r.t = "wb" -> TRUE
    [] r.t = "cat" -> Len(r.a) > 0 /\ StartsAtBoundary(r.a[1])
    [] r.t = "alt" -> \A k \in DOMAIN r.a : StartsAtBoundary(r.a[k])
    [] OTHER -> FALSE

\* pattern.search(text), text given as a Subject
Search(r, x) ==
  LET starts == IF StartsAtBoundary(r) THEN x.b ELSE 1..(Len(x.s) + 1)
  IN \E i \in starts : Ends(r, x, i) # {}
\* Python's  sub in text  on strings
Contains(text, sub) ==
  \E i \in 1..(Len(text) + 1) :
     i + Len(sub) - 1 <= Len(text) /\ SubSeq(text, i, i + Len(sub) - 1) = sub

(* ---------------------------------------------------------------------- *)
(* Pattern Library (src/src/constants.py)                                  *)
(* ---------------------------------------------------------------------- *)
LEVERAGE_NUM ==
  Cat(<<WB, Alt(<<Lit(<<"1", ".", "5">>), Lit(<<"2">>), Lit(<<"3">>), Lit(<<"4">>)>>), Lit(<<"x">>), WB>>)
INVERSE ==
  Cat(<<WB, Alt(<<Lit(<<"-", "1", "x">>), Lit(<<"-", "2", "x">>), Lit(<<"i", "n", "v", "e", "r", "s", "e">>), Lit(<<"s", "h", "o", "r", "t">>), Lit(<<"b", "e", "a", "r">>)>>), WB>>)
BRAND_CTX ==
  Alt(<<Cat(<<WB, Lit(<<"u", "l", "t", "r", "a", "p", "r", "o">>), WB>>),
        Cat(<<WB, Lit(<<"p", "r", "o", "s", "h", "a", "r", "e", "s">>), Plus(WS), Lit(<<"u", "l", "t", "r", "a">>), WB>>),
        Cat(<<WB, Lit(<<"d", "i", "r", "e", "x", "i", "o", "n">>), Plus(WS), Lit(<<"d", "a", "i", "l", "y">>), WB>>)>>)
BULL_BEAR == Cat(<<WB, Alt(<<Lit(<<"b", "u", "l", "l">>), Lit(<<"b", "e", "a", "r">>)>>), WB>>)
EXCL_SHORT_DURATION ==
  Cat(<<WB,
        Alt(<<Cat(<<Lit(<<"u", "l", "t", "r", "a">>), Star(WS), Lit(<<"s", "h", "o", "r", "t">>)>>),
              Cat(<<Lit(<<"s", "h", "o", "r", "t">>), Opt(Cls({"-"} \cup Spaces))>>)>>),
        Alt(<<Lit(<<"t", "e", "r", "m">>), Lit(<<"d", "u", "r", "a", "t", "i", "o", "n">>),
              Cat(<<Lit(<<"m", "a", "t", "u", "r", "i", "t">>), Alt(<<Lit(<<"y">>), Lit(<<"i", "e", "s">>)>>)>>),
              Lit(<<"t", "r", "e", "a", "s", "u", "r", "y">>),
              Cat(<<Lit(<<"t">>), Opt(Lit(<<"-">>)), Lit(<<"b", "i", "l", "l">>)>>),
              Lit(<<"m", "u", "n", "i">>), Lit(<<"m", "u", "n", "i", "c", "i", "p", "a", "l">>), Lit(<<"g", "o", "v", "e", "r", "n", "m", "e", "n", "t">>),
              Cat(<<Lit(<<"g", "o", "v">>), Opt(Lit(<<"'", "t">>))>>),
              Cat(<<Lit(<<"c", "o", "r", "p">>), Opt(Lit(<<"o", "r", "a", "t", "e">>))>>),
              Lit(<<"b", "o", "n", "d">>),
              Cat(<<Lit(<<"f", "i", "x", "e", "d">>), Star(WS), Lit(<<"i", "n", "c", "o", "m", "e">>)>>),
              Lit(<<"i", "n", "c", "o", "m", "e">>), Lit(<<"c", "a", "s", "h">>),
              Cat(<<Lit(<<"m", "o", "n", "e", "y">>), Star(WS), Lit(<<"m", "a", "r", "k", "e", "t">>)>>)>>),
        WB>>)
COMMODITY ==
  Cat(<<WB,
        Alt(<<Lit(<<"g", "o", "l", "d">>), Lit(<<"s", "i", "l", "v", "e", "r">>), Lit(<<"p", "l", "a", "t", "i", "n", "u", "m">>), Lit(<<"p", "a", "l", "l", "a", "d", "i", "u", "m">>), Lit(<<"o", "i", "l">>),
              Lit(<<"c", "r", "u", "d", "e">>), Lit(<<"b", "r", "e", "n", "t">>), Lit(<<"w", "t", "i">>),
              Cat(<<Lit(<<"n", "a", "t", "u", "r", "a", "l">>), Plus(WS), Lit(<<"g", "a", "s">>)>>),
              Cat(<<Lit(<<"n", "a", "t">>), Plus(WS), Lit(<<"g", "a", "s">>)>>),
              Lit(<<"v", "i", "x">>), Lit(<<"b", "i", "t", "c", "o", "i", "n">>), Lit(<<"b", "t", "c">>), Lit(<<"e", "t", "h", "e", "r">>), Lit(<<"e", "t", "h", "e", "r", "e", "u", "m">>),
              Lit(<<"c", "o", "p", "p", "e", "r">>)>>),
        WB>>)
FUTURES ==
  Alt(<<Cat(<<WB, Lit(<<"f", "u", "t", "u", "r", "e">>), Opt(Lit(<<"s">>)), WB>>),
        Cat(<<WB, Lit(<<"f", "r", "o", "n", "t">>), Opt(Lit(<<"-">>)), Lit(<<"m", "o", "n", "t", "h">>), WB>>),
        Cat(<<WB, Lit(<<"f", "u", "t", "u", "r", "e">>), Opt(Lit(<<"s">>)), Plus(WS), Lit(<<"s", "t", "r", "a", "t", "e", "g", "y">>), WB>>),
        Cat(<<WB, Lit(<<"s", "t", "r", "a", "t", "e", "g", "y">>), WB>>)>>)
TRUST == Cat(<<WB, Lit(<<"t", "r", "u", "s", "t">>), WB>>)
EXCL_GOLDMAN == Cat(<<WB, Lit(<<"g", "o", "l", "d">>), NotAhead(Lit(<<"m", "a", "n">>)), WB>>)
ETN ==
  Alt(<<Cat(<<WB, Lit(<<"e", "t", "n">>), Opt(Lit(<<"s">>)), WB>>),
        Cat(<<WB, Lit(<<"e", "x", "c", "h", "a", "n", "g", "e">>), Opt(Lit(<<"-">>)), Lit(<<"t", "r", "a", "d", "e", "d">>), Plus(WS), Lit(<<"n", "o", "t", "e">>),
              Opt(Lit(<<"s">>)), WB>>),
        Cat(<<WB, Lit(<<"n", "o", "t", "e">>), Opt(Lit(<<"s">>)), Plus(WS), Lit(<<"d", "u", "e">>), WB>>)>>)
ETF_WORD == Cat(<<WB, Lit(<<"e", "t", "f">>), Opt(Lit(<<"s">>)), WB>>)
ULTRAPRO == Cat(<<WB, Lit(<<"u", "l", "t", "r", "a", "p", "r", "o">>), WB>>)
\* PRO_ULTRA without the word boundary after "ultra"
PRO_ULTRA_NoBoundary == Cat(<<WB, Lit(<<"p", "r", "o", "s", "h", "a", "r", "e", "s">>), Plus(WS), Lit(<<"u", "l", "t", "r", "a">>)>>)
PRO_ULTRA == Cat(<<WB, Lit(<<"p", "r", "o", "s", "h", "a", "r", "e", "s">>), Plus(WS), Lit(<<"u", "l", "t", "r", "a">>), WB>>)
PRO_ULTRASHORT == Cat(<<WB, Lit(<<"p", "r", "o", "s", "h", "a", "r", "e", "s">>), Plus(WS), Lit(<<"u", "l", "t", "r", "a", "s", "h", "o", "r", "t">>), WB>>)
\* [A-Z]{1,5} under re.IGNORECASE: one to five letters of either case
Ticker == Rep(Cls(Letters), 1, 5)
SINGLE_STOCK_PATTERNS ==
  <<Cat(<<WB, Lit(<<"d", "a", "i", "l", "y">>), Plus(WS), Ticker, Plus(WS), Alt(<<Lit(<<"b", "u", "l", "l">>), Lit(<<"b", "e", "a", "r">>)>>), WB>>),
    Cat(<<WB, Alt(<<Lit(<<"l", "o", "n", "g">>), Lit(<<"s", "h", "o", "r", "t">>)>>), Plus(WS), Ticker, WB>>),
    Cat(<<WB, Ticker, WB, Plus(WS), Alt(<<Lit(<<"b", "u", "l", "l">>), Lit(<<"b", "e", "a", "r">>)>>), Plus(WS),
          Alt(<<Lit(<<"1", "x">>), Lit(<<"2", "x">>), Lit(<<"3", "x">>), Lit(<<"-", "1", "x">>), Lit(<<"-", "2", "x">>)>>), WB>>),
    Cat(<<WB, Ticker, Lit(<<")">>), Star(WS), Alt(<<Lit(<<"b", "u", "l", "l">>), Lit(<<"b", "e", "a", "r">>)>>)>>)>>
\* the patterns written inline in src/src/detectors.py
EXPLICIT_BEAR == Cat(<<WB, Alt(<<Lit(<<"-", "1", "x">>), Lit(<<"-", "2", "x">>), Lit(<<"b", "e", "a", "r">>)>>), WB>>)
BRAND_INVERSE_WORD ==
  Cat(<<WB, Alt(<<Lit(<<"i", "n", "v", "e", "r", "s", "e">>), Cat(<<Lit(<<"u", "l", "t", "r", "a">>), Star(WS), Lit(<<"s", "h", "o", "r", "t">>)>>),
                  Lit(<<"s", "h", "o", "r", "t">>), Lit(<<"b", "e", "a", "r">>)>>), WB>>)
CRYPTO ==
  Cat(<<WB, Alt(<<Lit(<<"b", "i", "t", "c", "o", "i", "n">>), Lit(<<"b", "t", "c">>), Lit(<<"e", "t", "h", "e", "r">>), Lit(<<"e", "t", "h", "e", "r", "e", "u", "m">>)>>), WB>>)
PHYSICAL ==
  Cat(<<WB, Alt(<<Cat(<<Lit(<<"p", "h", "y", "s", "i", "c", "a", "l">>), Opt(Lit(<<"l", "y">>))>>), Lit(<<"b", "u", "l", "l", "i", "o", "n">>),
                  Cat(<<Lit(<<"b", "a", "r">>), Opt(Lit(<<"s">>))>>)>>), WB>>)

(* ---------------------------------------------------------------------- *)
(* src/src/detectors.py                                                    *)
(* ---------------------------------------------------------------------- *)
\* re.sub(r"\s+", " ", s): every run of whitespace becomes one space
RECURSIVE CollapseSpaces(_)
CollapseSpaces(s) ==
  IF s = <<>> THEN <<>>
  ELSE IF Head(s) \in Spaces
       THEN IF Len(s) > 1 /\ s[2] \in Spaces
            THEN CollapseSpaces(Tail(s))
            ELSE <<" ">> \o CollapseSpaces(Tail(s))
       ELSE <<Head(s)>> \o CollapseSpaces(Tail(s))
\* str.strip()
RECURSIVE Strip(_)
Strip(s) ==
  IF s = <<>> THEN <<>>
  ELSE IF Head(s) \in Spaces THEN Strip(Tail(s))
  ELSE IF s[Len(s)] \in Spaces THEN Strip(SubSeq(s, 1, Len(s) - 1))
  ELSE s
\* a name that is None: no sequence of characters equals it
NoneName == <<None>>
\* s or ""
OrEmpty(s) == IF s = NoneName THEN <<>> ELSE s
_norm(s) == Strip(CollapseSpaces(OrEmpty(s)))
_lower(s) == ToLower(_norm(s))
\* in the operators below a name is given as a Subject
_has(pattern, text) == Search(pattern, text)

_single_stock_hint(name) ==
  \E k \in DOMAIN SINGLE_STOCK_PATTERNS : Search(SINGLE_STOCK_PATTERNS[k], name)

\* _is_inverse_context without the duration/cash guard
_is_inverse_context_NoDurationGuard(name) == Search(INVERSE, name)
_is_inverse_context(name) ==
  IF Search(INVERSE, name)
  THEN IF Search(EXCL_SHORT_DURATION, name)
       THEN Search(EXPLICIT_BEAR, name)
       ELSE TRUE
  ELSE FALSE

_is_leverage_context(name) ==
  IF Search(LEVERAGE_NUM, name) THEN TRUE
  ELSE IF Search(BRAND_CTX, name) /\ (Search(BULL_BEAR, name) \/ Search(LEVERAGE_NUM, name))
       THEN TRUE
       ELSE FALSE

\* the brand families tested as an if/elif chain: only the first one fires
BrandRules_FirstOnly(name) ==
  IF Search(ULTRAPRO, name)
  THEN [hit |-> TRUE, implied_mult |-> "3", inverse |-> FALSE,
        reasons |-> <<"brand_ultrapro_implies_3x">>]
  ELSE IF Search(PRO_ULTRA, name)
  THEN [hit |-> TRUE, implied_mult |-> "2", inverse |-> FALSE,
        reasons |-> <<"brand_proshares_ultra_implies_2x">>]
  ELSE IF Search(PRO_ULTRASHORT, name)
  THEN [hit |-> TRUE, implied_mult |-> "2", inverse |-> TRUE,
        reasons |-> <<"brand_proshares_ultrashort_implies_minus2x">>]
  ELSE [hit |-> FALSE, implied_mult |-> None, inverse |-> FALSE, reasons |-> <<>>]
\* the three brand families, in the order the code tests them
BrandRules(name) ==
  LET a == IF Search(ULTRAPRO, name)
           THEN [hit |-> TRUE, implied_mult |-> "3", inverse |-> FALSE,
                 reasons |-> <<"brand_ultrapro_implies_3x">>]
           ELSE [hit |-> FALSE, implied_mult |-> None, inverse |-> FALSE, reasons |-> <<>>]
      b == IF Search(PRO_ULTRA, name)
           THEN [a EXCEPT !.hit = TRUE, !.implied_mult = "2",
                          !.reasons = Append(@, "brand_proshares_ultra_implies_2x")]
           ELSE a
  IN IF Search(PRO_ULTRASHORT, name)
     THEN [b EXCEPT !.hit = TRUE, !.implied_mult = "2", !.inverse = TRUE,
                    !.reasons = Append(@, "brand_proshares_ultrashort_implies_minus2x")]
     ELSE b

\* _brand_implies_leverage whose inverse-token check ignores EXCL_SHORT_DURATION
_brand_implies_leverage_NoDurationGuard(name) ==
  LET b == BrandRules(name)
  IN IF b.hit /\ ~b.inverse /\ Search(BRAND_INVERSE_WORD, name)
     THEN [b EXCEPT !.inverse = TRUE, !.reasons = Append(@, "inverse_keyword_under_brand")]
     ELSE b
\* (hit, implied_mult, inverse_flag, reasons)
_brand_implies_leverage(name) ==
  LET b == BrandRules(name)
  IN IF b.hit /\ ~b.inverse
        /\ Search(BRAND_INVERSE_WORD, name) /\ ~Search(EXCL_SHORT_DURATION, name)
     THEN [b EXCEPT !.inverse = TRUE, !.reasons = Append(@, "inverse_keyword_under_brand")]
     ELSE b

\* _commodity_hit that takes the substring "gold" for the commodity
_commodity_hit_Substring(name) == Contains(name.s, <<"g", "o", "l", "d">>) \/ Search(COMMODITY, name)
_commodity_hit(name) ==
  IF Contains(name.s, <<"g", "o", "l", "d", "m", "a", "n">>)
  THEN Search(EXCL_GOLDMAN, name) \/ Search(COMMODITY, name)
  ELSE Search(COMMODITY, name)

\* row.get(key, "")
RowGet(row, key) == IF key \in DOMAIN row THEN row[key] ELSE <<>>

Verdict(matched, category, reasons, etp_type) ==
  [matched |-> matched, category |-> category, reasons |-> reasons, etp_type |-> etp_type]
\* a or b that keeps a None
Or_NoDefault(a, b) == a
\* a or b
Or(a, b) == IF a = None THEN b ELSE a

\* etp_flag read from the Test Issue column
EtpFlag_WrongColumn(row) == ToUpper(RowGet(row, "Test Issue")) = <<"Y">>
\* detect, global pre-filters
EtpFlag(row) == ToUpper(RowGet(row, "ETF")) = <<"Y">>
\* detect without the plausibility gate
PlausibleEtp_NoGate(name, row) == TRUE
PlausibleEtp(name, row) ==
  EtpFlag(row) \/ _has(TRUST, name) \/ _has(ETN, name) \/ _has(ETF_WORD, name)

\* the type classifier with the trust test before the note test
EtpType_TrustFirst(name, row) ==
  LET flagged == IF EtpFlag(row) THEN <<"etf_flag_Y">> ELSE <<>>
  IN IF _has(TRUST, name) /\ _commodity_hit(name)
     THEN [etp_type |-> "Trust", reasons |-> Append(flagged, "type_trust_with_commodity")]
     ELSE IF _has(ETN, name)
     THEN [etp_type |-> "ETN", reasons |-> Append(flagged, "type_etn_by_name")]
     ELSE IF EtpFlag(row) \/ _has(ETF_WORD, name)
     THEN [etp_type |-> "ETF", reasons |-> Append(flagged, "type_etf")]
     ELSE [etp_type |-> None, reasons |-> flagged]
\* the type classifier without reasons.append("type_trust_with_commodity")
EtpType_NoTrustReason(name, row) ==
  LET flagged == IF EtpFlag(row) THEN <<"etf_flag_Y">> ELSE <<>>
  IN IF _has(ETN, name)
     THEN [etp_type |-> "ETN", reasons |-> Append(flagged, "type_etn_by_name")]
     ELSE IF _has(TRUST, name) /\ _commodity_hit(name)
     THEN [etp_type |-> "Trust", reasons |-> flagged]
     ELSE IF EtpFlag(row) \/ _has(ETF_WORD, name)
     THEN [etp_type |-> "ETF", reasons |-> Append(flagged, "type_etf")]
     ELSE [etp_type |-> None, reasons |-> flagged]
\* detect, "Determine etp_type": the type and the reasons collected so far
EtpType(name, row) ==
  LET flagged == IF EtpFlag(row) THEN <<"etf_flag_Y">> ELSE <<>>
  IN IF _has(ETN, name)
     THEN [etp_type |-> "ETN", reasons |-> Append(flagged, "type_etn_by_name")]
     ELSE IF _has(TRUST, name) /\ _commodity_hit(name)
     THEN [etp_type |-> "Trust", reasons |-> Append(flagged, "type_trust_with_commodity")]
     ELSE IF EtpFlag(row) \/ _has(ETF_WORD, name)
     THEN [etp_type |-> "ETF", reasons |-> Append(flagged, "type_etf")]
     ELSE [etp_type |-> None, reasons |-> flagged]

ImpliedMultiplierReason(implied_mult) ==
  IF implied_mult = None THEN "implied_multiplier_unknown"
  ELSE IF implied_mult = "3" THEN "implied_multiplier_3x"
  ELSE "implied_multiplier_2x"

\* detect, "Brand-only leverage inference first"
BrandBranch(raw, name, t, brand) ==
  LET is_inverse == brand.inverse \/ _is_inverse_context(name)
      cat == IF _single_stock_hint(raw)
             THEN IF is_inverse THEN "leveraged_single_stock_inverse"
                                ELSE "leveraged_single_stock_long"
             ELSE IF is_inverse THEN "leveraged_index_inverse"
                                ELSE "leveraged_index_long"
  IN Verdict(TRUE, cat,
             Append(t.reasons \o brand.reasons, ImpliedMultiplierReason(brand.implied_mult)),
             Or(t.etp_type, "ETF"))

\* Category 1 with the category taken from is_leverage first
LeverageBranch_LeverageFirst(raw, t, is_leverage, is_inverse) ==
  LET lev == IF is_leverage THEN <<"leverage_context">> ELSE <<>>
      inv == IF is_inverse THEN <<"inverse_context">> ELSE <<>>
  IN IF _single_stock_hint(raw)
     THEN Verdict(TRUE,
                  IF is_leverage THEN "leveraged_single_stock_long"
                                 ELSE "leveraged_single_stock_inverse",
                  Append(t.reasons \o lev \o inv, "single_stock_detected"),
                  Or(t.etp_type, "ETF"))
     ELSE Verdict(TRUE,
                  IF is_leverage THEN "leveraged_index_long" ELSE "leveraged_index_inverse",
                  t.reasons \o lev \o inv,
                  Or(t.etp_type, "ETF"))
\* detect, "Category 1: Leverage/Inverse via explicit tokens"
LeverageBranch(raw, t, is_leverage, is_inverse) ==
  LET lev == IF is_leverage THEN <<"leverage_context">> ELSE <<>>
      inv == IF is_inverse THEN <<"inverse_context">> ELSE <<>>
  IN IF _single_stock_hint(raw)
     THEN Verdict(TRUE,
                  IF is_inverse THEN "leveraged_single_stock_inverse"
                                ELSE "leveraged_single_stock_long",
                  Append(t.reasons \o lev \o inv, "single_stock_detected"),
                  Or(t.etp_type, "ETF"))
     ELSE Verdict(TRUE,
                  IF is_inverse THEN "leveraged_index_inverse" ELSE "leveraged_index_long",
                  t.reasons \o lev \o inv,
                  Or(t.etp_type, "ETF"))

\* detect, "Category 2: Futures-based commodity/crypto"
FuturesBranch(name, t) ==
  Verdict(TRUE,
          IF Search(CRYPTO, name) THEN "crypto_futures" ELSE "commodity_futures",
          Append(t.reasons, "futures_keyword"),
          Or(t.etp_type, IF _has(ETN, name) THEN "ETN" ELSE "ETF"))

\* detect, "Category 3: Physically-backed commodity/crypto trusts/ETFs"
TrustBranch(name, t) ==
  Verdict(TRUE,
          IF Search(CRYPTO, name) THEN "crypto_trust" ELSE "commodity_physical_trust",
          IF Search(PHYSICAL, name) THEN Append(t.reasons, "physical_keyword") ELSE t.reasons,
          Or(t.etp_type, "Trust"))

\* detect, "Also allow physically-backed ETFs (non-trust)"
PhysicalBranch(name, t) ==
  Verdict(TRUE,
          IF Search(CRYPTO, name) THEN "crypto_trust" ELSE "commodity_physical_trust",
          Append(t.reasons, "physical_keyword"),
          Or(t.etp_type, "ETF"))

\* detect, the conditions of the three commodity branches
FuturesCond(name) == _commodity_hit(name) /\ _has(FUTURES, name)
\* the trust branch taken on the trust wording alone
TrustCond_TrustOnly(name) == _has(TRUST, name)
TrustCond(name) == _has(TRUST, name) /\ _commodity_hit(name)
\* the non-trust physical branch taken on the physical wording alone
PhysicalCond_NoCommodity(name) == Search(PHYSICAL, name)
PhysicalCond(name) == _commodity_hit(name) /\ Search(PHYSICAL, name)

\* detect, the final fall-through return
NoMatch(t) == Verdict(FALSE, None, <<>>, t.etp_type)

\* detect with the futures branch tested before the leverage branches
detect_FuturesFirst(raw_name, row) ==
  LET name == Subject(_lower(raw_name))
      raw == Subject(raw_name)
      t == EtpType(name, row)
      brand == _brand_implies_leverage(name)
      is_leverage == _is_leverage_context(name)
      is_inverse == _is_inverse_context(name)
  IN IF ~PlausibleEtp(name, row) THEN Verdict(FALSE, None, <<>>, None)
     ELSE IF FuturesCond(name) THEN FuturesBranch(name, t)
     ELSE IF brand.hit THEN BrandBranch(raw, name, t, brand)
     ELSE IF is_leverage \/ is_inverse
     THEN LeverageBranch(raw, t, is_leverage, is_inverse)
     ELSE IF TrustCond(name) THEN TrustBranch(name, t)
     ELSE IF PhysicalCond(name) THEN PhysicalBranch(name, t)
     ELSE NoMatch(t)
\* detect(name, row): (matched, category, reasons, etp_type)
detect(raw_name, row) ==
  LET name == Subject(_lower(raw_name))
      raw == Subject(raw_name)
      t == EtpType(name, row)
      brand == _brand_implies_leverage(name)
      is_leverage == _is_leverage_context(name)
      is_inverse == _is_inverse_context(name)
  IN IF ~PlausibleEtp(name, row) THEN Verdict(FALSE, None, <<>>, None)
     ELSE IF brand.hit THEN BrandBranch(raw, name, t, brand)
     ELSE IF is_leverage \/ is_inverse
     THEN LeverageBranch(raw, t, is_leverage, is_inverse)
     ELSE IF FuturesCond(name) THEN FuturesBranch(name, t)
     ELSE IF TrustCond(name) THEN TrustBranch(name, t)
     ELSE IF PhysicalCond(name) THEN PhysicalBranch(name, t)
     ELSE NoMatch(t)

(* ---------------------------------------------------------------------- *)
(* The inputs: rows of the listing file                                    *)
(* ---------------------------------------------------------------------- *)
\* values of the ETF column
ETFValues == {<<"Y">>, <<"y">>, <<"N">>}
\* the parts (words, hyphenated words, issuer names) a security name is made of:
\* products with brand, multiplier, commodity, futures and wrapper vocabulary
Vocabulary ==
  {<<"U", "l", "t", "r", "a", "P", "r", "o">>, <<"S", "h", "o", "r", "t">>, <<"2", "x">>, <<"G", "o", "l", "d">>, <<"B", "i", "t", "c", "o", "i", "n">>, <<"F", "u", "t", "u", "r", "e", "s">>, <<"P", "h", "y", "s", "i", "c", "a", "l">>, <<"T", "r", "u", "s", "t">>, <<"E", "T", "F">>, <<"E", "T", "N">>}
\* brand families next to duration and bearish vocabulary
BrandVocabulary ==
  {<<"P", "r", "o", "S", "h", "a", "r", "e", "s">>, <<"U", "l", "t", "r", "a">>, <<"U", "l", "t", "r", "a", "S", "h", "o", "r", "t">>, <<"U", "l", "t", "r", "a", "P", "r", "o">>, <<"S", "h", "o", "r", "t">>, <<"S", "h", "o", "r", "t", "-", "T", "e", "r", "m">>, <<"B", "o", "n", "d">>, <<"B", "e", "a", "r">>,
   <<"E", "T", "F">>}
\* an issuer name that contains a commodity token, and fixed-income funds
GoldmanVocabulary ==
  {<<"G", "o", "l", "d", "m", "a", "n", " ", "S", "a", "c", "h", "s">>, <<"G", "o", "l", "d">>, <<"S", "i", "l", "v", "e", "r">>, <<"F", "u", "t", "u", "r", "e", "s">>, <<"T", "r", "u", "s", "t">>, <<"E", "T", "F">>, <<"U", "l", "t", "r", "a", " ", "S", "h", "o", "r", "t">>,
   <<"U", "l", "t", "r", "a", "-", "S", "h", "o", "r", "t">>, <<"M", "u", "n", "i", "c", "i", "p", "a", "l">>, <<"G", "o", "l", "d", "-", "L", "i", "n", "k", "e", "d">>}
\* multipliers, inverse words, a duration phrase, a leverage brand and words of
\* either case in the ticker position
GenericVocabulary ==
  {<<"2", "x">>, <<"S", "h", "o", "r", "t">>, <<"B", "e", "a", "r">>, <<"S", "h", "o", "r", "t", "-", "T", "e", "r", "m">>, <<"-", "2", "x">>, <<"-", "1", "x">>, <<"D", "i", "r", "e", "x", "i", "o", "n", " ", "D", "a", "i", "l", "y">>, <<"R", "e", "a", "l">>, <<"E", "T", "F">>}
\* names that are empty or made of whitespace only
BlankVocabulary == {<<>>, <<" ">>, <<"\t">>}
\* rows as detect may be handed them: the ETF column in either case or missing,
\* and columns detect does not read
CallNames == {<<"P", "r", "o", "S", "h", "a", "r", "e", "s", " ", "U", "l", "t", "r", "a", "P", "r", "o", " ", "Q", "Q", "Q">>, <<"G", "o", "l", "d", " ", "T", "r", "u", "s", "t">>, <<"A", "c", "m", "e", " ", "C", "o", "r", "p">>}
CallRows ==
  {("Security Name" :> n) @@ e @@ ("Test Issue" :> t) :
     n \in CallNames,
     e \in {("ETF" :> <<"Y">>), ("ETF" :> <<"y">>), ("ETF" :> <<"N">>), <<>>},
     t \in {<<"N">>, <<"Y">>}}
\* rows of the listing as run() reads them: a leveraged fund, a commodity
\* trust and a common stock, each with the Test Issue column in either case, set
\* or missing
ScanRows ==
  {n @@ t :
     n \in {("Symbol" :> <<"T", "Q", "Q", "Q">>) @@ ("Security Name" :> <<"P", "r", "o", "S", "h", "a", "r", "e", "s", " ", "U", "l", "t", "r", "a", "P", "r", "o", " ", "Q", "Q", "Q">>) @@ ("ETF" :> <<"Y">>),
            ("Symbol" :> <<"G", "L", "D">>) @@ ("Security Name" :> <<"G", "o", "l", "d", " ", "T", "r", "u", "s", "t">>) @@ ("ETF" :> <<"N">>),
            ("Symbol" :> <<"A", "C", "M", "E">>) @@ ("Security Name" :> <<"A", "c", "m", "e", " ", "C", "o", "r", "p">>) @@ ("ETF" :> <<"N">>)},
     t \in {("Test Issue" :> <<"N">>), ("Test Issue" :> <<"n">>), ("Test Issue" :> <<"Y">>), <<>>}}

\* parts: the parts of the row's name, as the feed wrote them
\* row: the row handed to detect (the "Security Name" and "ETF" columns)
\* name: detect's local name, the folded form of the row's name
\* verdict: the tuple detect returned
\* calls: the calls of detect so far: the name and the row passed, the tuple returned
\* rows: the rows run() has processed so far, in the order of the input
\* records: the records run() has emitted so far
VARIABLES parts, row, name, verdict, pc, calls, rows, records
vars == <<parts, row, name, verdict, pc, calls, rows, records>>

\* " ".join(parts)
RECURSIVE Join(_)
Join(ps) ==
  IF ps = <<>> THEN <<>>
  ELSE IF Len(ps) = 1 THEN ps[1]
  ELSE ps[1] \o <<" ">> \o Join(Tail(ps))

NoVerdict == Verdict(FALSE, None, <<>>, None)

Init ==
  /\ parts = <<>>
  /\ \E e \in ETFValues : row = ("Security Name" :> <<>>) @@ ("ETF" :> e)
  /\ name = <<>>
  /\ verdict = NoVerdict
  /\ pc = "feed"
  /\ calls = <<>>
  /\ rows = <<>>
  /\ records = <<>>

\* the feed writes one more part of the row's Security Name
AppendPart(w) ==
  /\ pc = "feed"
  /\ Len(parts) < MaxParts
  /\ parts' = Append(parts, w)
  /\ row' = [row EXCEPT !["Security Name"] = Join(parts')]
  /\ UNCHANGED <<name, verdict, pc, calls, rows, records>>

\* run(): name = row.get("Security Name", ""); detect(name, row)
Detect ==
  /\ pc = "feed"
  /\ name' = _lower(RowGet(row, "Security Name"))
  /\ verdict' = detect(RowGet(row, "Security Name"), row)
  /\ calls' = Append(calls, [name |-> RowGet(row, "Security Name"), row |-> row,
                             verdict |-> verdict'])
  /\ pc' = "done"
  /\ UNCHANGED <<parts, row, rows, records>>

Feed == \E w \in Vocabulary : AppendPart(w)
Next == Feed \/ Detect
Spec == Init /\ [][Next]_vars

FeedBrand == \E w \in BrandVocabulary : AppendPart(w)
NextBrand == FeedBrand \/ Detect
SpecBrand == Init /\ [][NextBrand]_vars

FeedGoldman == \E w \in GoldmanVocabulary : AppendPart(w)
NextGoldman == FeedGoldman \/ Detect
SpecGoldman == Init /\ [][NextGoldman]_vars

FeedGeneric == \E w \in GenericVocabulary : AppendPart(w)
NextGeneric == FeedGeneric \/ Detect
SpecGeneric == Init /\ [][NextGeneric]_vars

\* detect(None, row): a call with a missing name
DetectMissing ==
  /\ pc = "feed"
  /\ parts = <<>>
  /\ name' = _lower(NoneName)
  /\ verdict' = detect(NoneName, row)
  /\ calls' = Append(calls, [name |-> NoneName, row |-> row, verdict |-> verdict'])
  /\ pc' = "done"
  /\ UNCHANGED <<parts, row, rows, records>>
FeedBlank == \E w \in BlankVocabulary : AppendPart(w)
NextBlank == FeedBlank \/ Detect \/ DetectMissing
SpecBlank == Init /\ [][NextBlank]_vars

\* one more call of detect, on any row, after any number of calls
Call(r) ==
  /\ Len(calls) < MaxCalls
  /\ row' = r
  /\ name' = _lower(RowGet(r, "Security Name"))
  /\ verdict' = detect(RowGet(r, "Security Name"), r)
  /\ calls' = Append(calls, [name |-> RowGet(r, "Security Name"), row |-> r,
                             verdict |-> verdict'])
  /\ pc' = "done"
  /\ UNCHANGED <<parts, rows, records>>
NextCalls == \E r \in CallRows : Call(r)
SpecCalls == Init /\ [][NextCalls]_vars

\* run(): the timestamp taken once, before the scan
ts == "ts"
\* run(): a row that is skipped as a test issue
TestIssue_OnlyY(r) == ToUpper(RowGet(r, "Test Issue")) = <<"Y">>
TestIssue(r) == ToUpper(RowGet(r, "Test Issue")) # <<"N">>
\* x or ""
OrBlank(x) == IF x = None THEN "" ELSE x
\* run(): the record of a matched row
Rec(r, v) ==
  [symbol |-> RowGet(r, "Symbol"), name |-> RowGet(r, "Security Name"),
   etp_type |-> OrBlank(v.etp_type), category |-> OrBlank(v.category),
   reasons |-> v.reasons, timestamp |-> ts]
\* run(): one pass of the loop over the rows
ScanRow(r) ==
  /\ Len(rows) < MaxRows
  /\ rows' = Append(rows, r)
  /\ row' = r
  /\ IF TestIssue(r)
     THEN UNCHANGED <<name, verdict, calls, records>>
     ELSE /\ name' = _lower(RowGet(r, "Security Name"))
          /\ verdict' = detect(RowGet(r, "Security Name"), r)
          /\ calls' = Append(calls, [name |-> RowGet(r, "Security Name"), row |-> r,
                                     verdict |-> verdict'])
          /\ records' = IF verdict'.matched THEN Append(records, Rec(r, verdict'))
                        ELSE records
  /\ pc' = "scan"
  /\ UNCHANGED parts
NextScan == \E r \in ScanRows : ScanRow(r)
SpecScan == Init /\ [][NextScan]_vars

(* ---------------------------------------------------------------------- *)
(* Vocabulary of the properties                                            *)
(* ---------------------------------------------------------------------- *)
LongCats == {"leveraged_single_stock_long", "leveraged_index_long"}
InverseCats == {"leveraged_single_stock_inverse", "leveraged_index_inverse"}
LeveragedCats == LongCats \cup InverseCats
FuturesCats == {"commodity_futures", "crypto_futures"}
TrustCats == {"commodity_physical_trust", "crypto_trust"}
Categories == LeveragedCats \cup FuturesCats \cup TrustCats

Done == pc = "done"
\* the folded form of the row's name, once detect has run
Name == Subject(name)
InReasons(tag) == \E k \in DOMAIN verdict.reasons : verdict.reasons[k] = tag

\* the words of a folded name, split at whitespace
FirstSpace(s) ==
  IF \E i \in DOMAIN s : s[i] \in Spaces
  THEN CHOOSE i \in DOMAIN s : s[i] \in Spaces /\ \A j \in 1..(i - 1) : s[j] \notin Spaces
  ELSE Len(s) + 1
RECURSIVE WordsOf(_)
WordsOf(s) ==
  IF s = <<>> THEN <<>>
  ELSE <<SubSeq(s, 1, FirstSpace(s) - 1)>> \o WordsOf(SubSeq(s, FirstSpace(s) + 1, Len(s)))
\* the words ws stand among the words nw, one after the other
WordsIn(nw, ws) ==
  \E k \in 1..Len(nw) : k + Len(ws) - 1 <= Len(nw) /\ SubSeq(nw, k, k + Len(ws) - 1) = ws
HasWords(ws) == WordsIn(WordsOf(name), ws)

FundFlagged == row["ETF"] \in {<<"Y">>, <<"y">>}
TrustVocabulary == Search(TRUST, Name)
NoteVocabulary == Search(ETN, Name)
FundWordVocabulary == Search(ETF_WORD, Name)
GateVocabulary == TrustVocabulary \/ NoteVocabulary \/ FundWordVocabulary
GatePasses == FundFlagged \/ GateVocabulary
CommodityVocabulary == Search(COMMODITY, Name)
FuturesVocabulary == Search(FUTURES, Name)
PhysicalVocabulary == Search(PHYSICAL, Name)
DurationPhrase == Search(EXCL_SHORT_DURATION, Name)
ExplicitBear == Search(EXPLICIT_BEAR, Name)
InverseVocabulary == Search(INVERSE, Name) \/ Search(BRAND_INVERSE_WORD, Name)
BrandFires == Search(ULTRAPRO, Name) \/ Search(PRO_ULTRA, Name) \/ Search(PRO_ULTRASHORT, Name)
LeverageSignal ==
  Search(LEVERAGE_NUM, Name)
  \/ (Search(BRAND_CTX, Name) /\ (Search(BULL_BEAR, Name) \/ Search(LEVERAGE_NUM, Name)))
\* an inverse token that survives the duration guard
InverseSignal == Search(INVERSE, Name) /\ (DurationPhrase => ExplicitBear)
GenericFires == LeverageSignal \/ InverseSignal

(* ---------------------------------------------------------------------- *)
(* Properties                                                              *)
(* ---------------------------------------------------------------------- *)

\* C1: whenever detect returns matched = false, both the category and the
\* instrument type of the verdict are None, on the gate path and on the final
\* fall-through path alike.  (The fall-through return carries etp_type.)
C1_UnmatchedCarriesNothing ==
  Done /\ ~verdict.matched => verdict.category = None /\ verdict.etp_type = None

\* C2: whenever detect returns matched = true, the reasons are not empty.
C2_MatchedHasReasons ==
  Done /\ verdict.matched => verdict.reasons # <<>>
\* a trust match of a row that is not fund-flagged: its only reason is the type's
C2_Witness ==
  /\ Done /\ verdict.matched /\ ~FundFlagged
  /\ verdict.category = "commodity_physical_trust"
  /\ verdict.reasons = <<"type_trust_with_commodity">>

\* C3: gate soundness: a name that is not fund-flagged and has no trust, note or
\* fund-word vocabulary gets (False, None, [], None), whatever brand, leverage,
\* inverse or commodity tokens it contains.
C3_GateSoundness ==
  Done /\ ~FundFlagged /\ ~GateVocabulary => verdict = Verdict(FALSE, None, <<>>, None)
C3_Witness ==
  /\ Done /\ ~FundFlagged /\ ~GateVocabulary
  /\ BrandFires /\ CommodityVocabulary
  /\ verdict = Verdict(FALSE, None, <<>>, None)

\* C4 as claimed: a name with a duration/cash phrase and no explicit bear, -1x or
\* -2x token is unmatched or gets a category that is not inverse, also when a
\* brand rule (UltraPro, ProShares Ultra, ProShares UltraShort) fires.
C4_DurationGuard_AsClaimed ==
  Done /\ DurationPhrase /\ ~ExplicitBear
    => ~verdict.matched \/ verdict.category \notin InverseCats
\* C4 amended: the same, for the names on which the ProShares UltraShort brand
\* rule does not fire (that brand is inverse by itself).
C4_DurationGuard ==
  Done /\ DurationPhrase /\ ~ExplicitBear /\ ~Search(PRO_ULTRASHORT, Name)
    => ~verdict.matched \/ verdict.category \notin InverseCats
\* a brand rule fires on a name with "short" in a duration phrase: the match is long
C4_Witness ==
  /\ Done /\ DurationPhrase /\ ~ExplicitBear /\ ~Search(PRO_ULTRASHORT, Name)
  /\ InReasons("brand_ultrapro_implies_3x")
  /\ verdict.matched /\ verdict.category \in LongCats

\* C5: a name that passes the gate, fires no brand rule, has no multiplier or
\* leverage-brand context, no inverse signal that survives the duration guard and
\* no commodity/crypto vocabulary is unmatched.
C5_NoSignalUnmatched ==
  Done /\ GatePasses /\ ~BrandFires /\ ~LeverageSignal /\ ~InverseSignal
       /\ ~CommodityVocabulary
    => ~verdict.matched
\* "Goldman Sachs Ultra Short Municipal", fund-flagged
C5_Witness ==
  /\ Done /\ GatePasses /\ ~BrandFires /\ ~LeverageSignal /\ ~InverseSignal
  /\ ~CommodityVocabulary
  /\ Contains(name, <<"g", "o", "l", "d", "m", "a", "n">>) /\ Search(INVERSE, Name) /\ DurationPhrase
  /\ ~verdict.matched

\* C6: a gate-passing name with a brand-family token is matched with a leveraged
\* category and the family's tag in reasons; a ProShares UltraShort name gets an
\* inverse category; a ProShares Ultra or UltraPro name without inverse
\* vocabulary gets a long category.
BrandMatch(tag) ==
  verdict.matched /\ verdict.category \in LeveragedCats /\ InReasons(tag)
C6_BrandInference ==
  Done /\ GatePasses =>
    /\ HasWords(<<<<"u", "l", "t", "r", "a", "p", "r", "o">>>>) => BrandMatch("brand_ultrapro_implies_3x")
    /\ HasWords(<<<<"p", "r", "o", "s", "h", "a", "r", "e", "s">>, <<"u", "l", "t", "r", "a">>>>) => BrandMatch("brand_proshares_ultra_implies_2x")
    /\ HasWords(<<<<"p", "r", "o", "s", "h", "a", "r", "e", "s">>, <<"u", "l", "t", "r", "a", "s", "h", "o", "r", "t">>>>) =>
         /\ BrandMatch("brand_proshares_ultrashort_implies_minus2x")
         /\ verdict.category \in InverseCats
    /\ (HasWords(<<<<"u", "l", "t", "r", "a", "p", "r", "o">>>>) \/ HasWords(<<<<"p", "r", "o", "s", "h", "a", "r", "e", "s">>, <<"u", "l", "t", "r", "a">>>>)) /\ ~InverseVocabulary
         => verdict.category \in LongCats
\* two brand families in one name: both tags are emitted
C6_Witness ==
  /\ Done /\ GatePasses
  /\ HasWords(<<<<"u", "l", "t", "r", "a", "p", "r", "o">>>>) /\ HasWords(<<<<"p", "r", "o", "s", "h", "a", "r", "e", "s">>, <<"u", "l", "t", "r", "a">>>>) /\ ~InverseVocabulary
  /\ BrandMatch("brand_ultrapro_implies_3x") /\ BrandMatch("brand_proshares_ultra_implies_2x")
  /\ verdict.category \in LongCats

\* C7: whenever a brand rule fires, the direction is determined by the brand
\* engine alone: the category is inverse if and only if reasons contain
\* brand_proshares_ultrashort_implies_minus2x or inverse_keyword_under_brand.
\* (detect also consults _is_inverse_context on the brand path.)
BrandTagged ==
  \/ InReasons("brand_ultrapro_implies_3x")
  \/ InReasons("brand_proshares_ultra_implies_2x")
  \/ InReasons("brand_proshares_ultrashort_implies_minus2x")
C7_BrandDeterminesDirection ==
  Done /\ BrandTagged =>
    (verdict.category \in InverseCats
       <=> \/ InReasons("brand_proshares_ultrashort_implies_minus2x")
           \/ InReasons("inverse_keyword_under_brand"))

\* C8 as claimed: on a name containing "goldman", _commodity_hit reports a hit
\* only if a commodity/crypto term other than "gold" is present, and the name
\* gets no futures or physical/trust category otherwise.
OTHER_COMMODITY ==
  Cat(<<WB,
        Alt(<<Lit(<<"s", "i", "l", "v", "e", "r">>), Lit(<<"p", "l", "a", "t", "i", "n", "u", "m">>), Lit(<<"p", "a", "l", "l", "a", "d", "i", "u", "m">>), Lit(<<"o", "i", "l">>),
              Lit(<<"c", "r", "u", "d", "e">>), Lit(<<"b", "r", "e", "n", "t">>), Lit(<<"w", "t", "i">>),
              Cat(<<Lit(<<"n", "a", "t", "u", "r", "a", "l">>), Plus(WS), Lit(<<"g", "a", "s">>)>>),
              Cat(<<Lit(<<"n", "a", "t">>), Plus(WS), Lit(<<"g", "a", "s">>)>>),
              Lit(<<"v", "i", "x">>), Lit(<<"b", "i", "t", "c", "o", "i", "n">>), Lit(<<"b", "t", "c">>), Lit(<<"e", "t", "h", "e", "r">>), Lit(<<"e", "t", "h", "e", "r", "e", "u", "m">>),
              Lit(<<"c", "o", "p", "p", "e", "r">>)>>),
        WB>>)
C8_GoldmanException_AsClaimed ==
  Done /\ Contains(name, <<"g", "o", "l", "d", "m", "a", "n">>) /\ ~Search(OTHER_COMMODITY, Name) =>
    /\ ~_commodity_hit(Name)
    /\ verdict.category \notin FuturesCats \cup TrustCats
\* C8 amended: on a name containing "goldman", _commodity_hit reports a hit only
\* if a commodity/crypto term stands in the name as a word of its own (the word
\* "gold" included); "gold" inside "goldman" alone never produces a hit nor a
\* futures or physical/trust category.
CommodityTerms ==
  {<<"g", "o", "l", "d">>, <<"s", "i", "l", "v", "e", "r">>, <<"p", "l", "a", "t", "i", "n", "u", "m">>, <<"p", "a", "l", "l", "a", "d", "i", "u", "m">>, <<"o", "i", "l">>, <<"c", "r", "u", "d", "e">>, <<"b", "r", "e", "n", "t">>, <<"w", "t", "i">>,
   <<"n", "a", "t", "u", "r", "a", "l", " ", "g", "a", "s">>, <<"n", "a", "t", " ", "g", "a", "s">>, <<"v", "i", "x">>, <<"b", "i", "t", "c", "o", "i", "n">>, <<"b", "t", "c">>, <<"e", "t", "h", "e", "r">>, <<"e", "t", "h", "e", "r", "e", "u", "m">>, <<"c", "o", "p", "p", "e", "r">>}
\* the term t stands in s with no word character right before or after it
DelimitedIn(s, t) ==
  \E i \in 1..Len(s) :
     /\ i + Len(t) - 1 <= Len(s) /\ SubSeq(s, i, i + Len(t) - 1) = t
     /\ ~IsWordAt(s, i - 1) /\ ~IsWordAt(s, i + Len(t))
CommodityWord == \E t \in CommodityTerms : DelimitedIn(name, t)
C8_GoldmanException ==
  Done /\ Contains(name, <<"g", "o", "l", "d", "m", "a", "n">>) /\ ~CommodityWord =>
    /\ ~_commodity_hit(Name)
    /\ verdict.category \notin FuturesCats \cup TrustCats
\* "Goldman Sachs Futures Trust": futures and trust vocabulary, no commodity
C8_Witness ==
  /\ Done /\ Contains(name, <<"g", "o", "l", "d", "m", "a", "n">>) /\ ~CommodityWord
  /\ TrustVocabulary /\ FuturesVocabulary
  /\ ~verdict.matched

\* C9: fixed priority, first success wins, one label: on a gate-passing name a
\* brand or generic leverage/inverse hit gives a leveraged category whatever
\* commodity, futures and trust vocabulary is present; otherwise commodity with
\* futures vocabulary gives a futures category whatever trust vocabulary is
\* present; only otherwise can a physical/trust category be returned.
C9_FixedPriority ==
  LET leveraged == BrandFires \/ GenericFires
      futures == CommodityVocabulary /\ FuturesVocabulary
  IN Done /\ GatePasses =>
       /\ leveraged => verdict.matched /\ verdict.category \in LeveragedCats
       /\ ~leveraged /\ futures => verdict.matched /\ verdict.category \in FuturesCats
       /\ verdict.category \in TrustCats => ~leveraged /\ ~futures
       /\ verdict.matched => verdict.category \in Categories
\* a multiplier next to commodity and futures vocabulary: the match is leveraged
C9_Witness ==
  /\ Done /\ GatePasses
  /\ GenericFires /\ CommodityVocabulary /\ FuturesVocabulary
  /\ verdict.matched /\ verdict.category \in LeveragedCats

\* C10 as claimed: every verdict with category commodity_physical_trust or
\* crypto_trust comes from a name with Trust vocabulary and commodity/crypto
\* vocabulary.
C10_TrustCategoryNeedsTrust_AsClaimed ==
  Done /\ verdict.category \in TrustCats => TrustVocabulary /\ CommodityVocabulary
\* C10 amended: every such verdict comes from a name with commodity/crypto
\* vocabulary and with Trust vocabulary or a physical/bullion/bars token (the
\* branch for physically-backed funds that are no trusts).
C10_TrustCategoryNeedsCommodity ==
  Done /\ verdict.category \in TrustCats
    => CommodityVocabulary /\ (TrustVocabulary \/ PhysicalVocabulary)
\* a physically-backed fund that is no trust
C10_Witness ==
  /\ Done /\ verdict.category \in TrustCats
  /\ ~TrustVocabulary /\ PhysicalVocabulary /\ CommodityVocabulary

\* C11: type precedence: on a gate-passing name the instrument type is ETN
\* whenever note vocabulary is present; otherwise Trust when trust and
\* commodity/crypto vocabulary are both present; otherwise ETF when the fund flag
\* or fund-word vocabulary is present; whichever category branch wins.
C11_TypePrecedence ==
  Done /\ GatePasses =>
    /\ NoteVocabulary => verdict.etp_type = "ETN"
    /\ ~NoteVocabulary /\ TrustVocabulary /\ CommodityVocabulary => verdict.etp_type = "Trust"
    /\ ~NoteVocabulary /\ ~(TrustVocabulary /\ CommodityVocabulary)
         /\ (FundFlagged \/ FundWordVocabulary) => verdict.etp_type = "ETF"
\* a fund-flagged note with trust and commodity vocabulary, matched by the trust branch
C11_Witness ==
  /\ Done /\ FundFlagged /\ NoteVocabulary /\ TrustVocabulary /\ CommodityVocabulary
  /\ verdict.category \in TrustCats
  /\ verdict.etp_type = "ETN"

\* the fund flag of a row, by its ETF column
FlagOf(r) == "ETF" \in DOMAIN r /\ r["ETF"] \in {<<"Y">>, <<"y">>}
LastName == calls[Len(calls)].name
IsBlank(s) == s = NoneName \/ \A k \in DOMAIN s : s[k] \in Spaces
\* C13: for an empty, whitespace-only or missing name and either value of the
\* fund flag, detect returns the gate's verdict (False, None, [], None).  (With
\* the fund flag set the gate passes and the fall-through return carries
\* etp_type.)
C13_BlankFailsGate ==
  Done /\ IsBlank(LastName) => verdict = Verdict(FALSE, None, <<>>, None)

\* C14: whenever the reasons contain brand_ultrapro_implies_3x they also contain
\* implied_multiplier_3x, also when more than one brand rule fires.  (A later
\* brand rule overwrites implied_mult.)
C14_UltraProImpliesThree ==
  Done /\ InReasons("brand_ultrapro_implies_3x") => InReasons("implied_multiplier_3x")

\* the words "proshares" "ultra" of the name, and what follows each such pair
UltraAlwaysFollowedByShort ==
  LET nw == WordsOf(name)
  IN \A k \in 1..(Len(nw) - 1) :
       nw[k] = <<"p", "r", "o", "s", "h", "a", "r", "e", "s">> /\ nw[k + 1] = <<"u", "l", "t", "r", "a">> => k + 2 <= Len(nw) /\ nw[k + 2] = <<"s", "h", "o", "r", "t">>
\* C15 as claimed: on a name in which "ProShares Ultra" is followed by "Short",
\* joined ("UltraShort") or separated by whitespace ("Ultra Short"), the reasons
\* do not contain brand_proshares_ultra_implies_2x.
C15_UltraNotBeforeShort_AsClaimed ==
  Done /\ UltraAlwaysFollowedByShort
       /\ (HasWords(<<<<"p", "r", "o", "s", "h", "a", "r", "e", "s">>, <<"u", "l", "t", "r", "a", "s", "h", "o", "r", "t">>>>) \/ HasWords(<<<<"p", "r", "o", "s", "h", "a", "r", "e", "s">>, <<"u", "l", "t", "r", "a">>, <<"s", "h", "o", "r", "t">>>>))
    => ~InReasons("brand_proshares_ultra_implies_2x")
\* C15 amended: the reasons contain brand_proshares_ultra_implies_2x only if
\* "proshares ultra" stands in the name with no word character after "ultra" (so
\* never for the joined "UltraShort" alone); on a gate-passing "ProShares Ultra
\* Short" the rule does fire, and the category is inverse unless the name holds a
\* duration/cash phrase.
C15_UltraNotJoinedShort ==
  Done =>
    /\ ~DelimitedIn(name, <<"p", "r", "o", "s", "h", "a", "r", "e", "s", " ", "u", "l", "t", "r", "a">>) => ~InReasons("brand_proshares_ultra_implies_2x")
    /\ GatePasses /\ HasWords(<<<<"p", "r", "o", "s", "h", "a", "r", "e", "s">>, <<"u", "l", "t", "r", "a">>, <<"s", "h", "o", "r", "t">>>>) =>
         /\ InReasons("brand_proshares_ultra_implies_2x")
         /\ ~DurationPhrase => verdict.category \in InverseCats
\* "ProShares UltraShort": the UltraShort rule fires, the Ultra rule does not
C15_Witness ==
  /\ Done /\ HasWords(<<<<"p", "r", "o", "s", "h", "a", "r", "e", "s">>, <<"u", "l", "t", "r", "a", "s", "h", "o", "r", "t">>>>) /\ ~DelimitedIn(name, <<"p", "r", "o", "s", "h", "a", "r", "e", "s", " ", "u", "l", "t", "r", "a">>)
  /\ InReasons("brand_proshares_ultrashort_implies_minus2x")
  /\ ~InReasons("brand_proshares_ultra_implies_2x")

SingleStockCats == {"leveraged_single_stock_long", "leveraged_single_stock_inverse"}
IndexCats == {"leveraged_index_long", "leveraged_index_inverse"}
\* the words of the row's name in their original case
RawWords == WordsOf(_norm(RowGet(row, "Security Name")))
\* a token of one to five uppercase letters
IsUpperTicker(w) == Len(w) \in 1..5 /\ \A k \in DOMAIN w : w[k] \in Range(Uppers)
\* Daily TICKER Bull/Bear, Long/Short TICKER, TICKER Bull/Bear Nx
UpperTickerShape ==
  LET rw == RawWords
      lw == [k \in DOMAIN rw |-> ToLower(rw[k])]
      n == Len(rw)
  IN \E k \in 1..n :
       \/ /\ k + 2 <= n /\ lw[k] = <<"d", "a", "i", "l", "y">> /\ IsUpperTicker(rw[k + 1])
          /\ lw[k + 2] \in {<<"b", "u", "l", "l">>, <<"b", "e", "a", "r">>}
       \/ /\ k + 1 <= n /\ lw[k] \in {<<"l", "o", "n", "g">>, <<"s", "h", "o", "r", "t">>} /\ IsUpperTicker(rw[k + 1])
       \/ /\ k + 2 <= n /\ IsUpperTicker(rw[k]) /\ lw[k + 1] \in {<<"b", "u", "l", "l">>, <<"b", "e", "a", "r">>}
          /\ lw[k + 2] \in {<<"1", "x">>, <<"2", "x">>, <<"3", "x">>, <<"-", "1", "x">>, <<"-", "2", "x">>}
\* C16: a leveraged/inverse verdict gets a single-stock category if and only if
\* the original-case name holds a token of 1 to 5 uppercase letters in one of the
\* ticker shapes; a lowercase or mixed-case word in the ticker position gives an
\* index category.  (The patterns are compiled with re.IGNORECASE.)
C16_TickerCaseSensitive ==
  Done /\ verdict.matched /\ verdict.category \in LeveragedCats =>
    /\ verdict.category \in SingleStockCats <=> UpperTickerShape
    /\ ~UpperTickerShape => verdict.category \in IndexCats

\* C17: on a gate-passing name on which no brand rule fires, the verdict is a
\* leveraged match if and only if is_leverage or is_inverse holds, and its
\* category is inverse exactly when is_inverse (the inverse signal that survives
\* the duration guard) holds: both signals give inverse, is_leverage alone long.
C17_GenericMatcher ==
  Done /\ GatePasses /\ ~BrandFires =>
    /\ (verdict.matched /\ verdict.category \in LeveragedCats) <=> GenericFires
    /\ GenericFires => (verdict.category \in InverseCats <=> InverseSignal)
    /\ LeverageSignal /\ ~InverseSignal => verdict.category \in LongCats
\* "2x Short": both signals
C17_Witness ==
  /\ Done /\ GatePasses /\ ~BrandFires
  /\ LeverageSignal /\ InverseSignal
  /\ verdict.matched /\ verdict.category \in InverseCats
  /\ InReasons("leverage_context") /\ InReasons("inverse_context")

\* C18: a name without commodity/crypto vocabulary never gets a futures or a
\* physical/trust category, whatever trust, futures or physical tokens it holds.
C18_NoCommodityNoCommodityMatch ==
  Done /\ ~CommodityVocabulary => verdict.category \notin FuturesCats \cup TrustCats
\* trust, futures and physical wording without a commodity: unmatched
C18_Witness ==
  /\ Done /\ GatePasses /\ ~CommodityVocabulary
  /\ TrustVocabulary /\ FuturesVocabulary /\ PhysicalVocabulary
  /\ ~verdict.matched

\* C19: every matched verdict carries a concrete instrument type (ETN, Trust or
\* ETF); when the type classifier found none, the matched verdict's type is ETF.
ClassifierFoundType ==
  NoteVocabulary \/ (TrustVocabulary /\ CommodityVocabulary) \/ FundFlagged \/ FundWordVocabulary
C19_MatchedHasType ==
  Done /\ verdict.matched =>
    /\ verdict.etp_type \in {"ETN", "Trust", "ETF"}
    /\ ~ClassifierFoundType => verdict.etp_type = "ETF"
\* a leveraged match that passed the gate through trust vocabulary alone
C19_Witness ==
  /\ Done /\ verdict.matched /\ ~ClassifierFoundType /\ TrustVocabulary
  /\ verdict.category \in LeveragedCats
  /\ verdict.etp_type = "ETF"

\* C20: on a gate-passing name on which no brand rule fires and which holds no
\* duration/cash phrase, a standalone token -1x or -2x gives a matched verdict
\* with an inverse leveraged category.  (\b before "-" needs a word character
\* in front of it.)
C20_NegativeMultiplierInverse ==
  Done /\ GatePasses /\ ~BrandFires /\ ~DurationPhrase
       /\ (HasWords(<<<<"-", "1", "x">>>>) \/ HasWords(<<<<"-", "2", "x">>>>))
    => verdict.matched /\ verdict.category \in InverseCats

\* a row that is no test issue: its Test Issue column is there and reads N or n
IsLive(r) == "Test Issue" \in DOMAIN r /\ r["Test Issue"] \in {<<"N">>, <<"n">>}
CallMatched(c) == c.verdict.matched
\* C21: after run() has processed any sequence of rows, detect has been called
\* on exactly the rows whose Test Issue column reads N (in either case), in the
\* order of the input, and the records are exactly the matched ones among them,
\* one per row and in that order; test issues, rows without the column and
\* unmatched rows give no record; every record has a category and an etp_type.
C21_ScanFilter ==
  LET live == SelectSeq(rows, IsLive)
      hits == SelectSeq(calls, CallMatched)
  IN /\ Len(calls) = Len(live)
     /\ \A i \in DOMAIN calls : calls[i].row = live[i]
     /\ Len(records) = Len(hits)
     /\ \A i \in DOMAIN records :
          /\ records[i].symbol = hits[i].row["Symbol"]
          /\ records[i].name = hits[i].row["Security Name"]
          /\ records[i].category = hits[i].verdict.category
          /\ records[i].etp_type = hits[i].verdict.etp_type
          /\ records[i].reasons = hits[i].verdict.reasons
          /\ records[i].category \in Categories
          /\ records[i].etp_type \in {"ETN", "Trust", "ETF"}
\* three rows scanned: a matched one, one without the Test Issue column, another
\* matched one; two records, in the order of the input
C21_Witness ==
  /\ Len(rows) = 3 /\ Len(records) = 2
  /\ IsLive(rows[1]) /\ IsLive(rows[3])
  /\ rows[1]["Symbol"] # rows[3]["Symbol"]
  /\ "Test Issue" \notin DOMAIN rows[2]
  /\ records[1].symbol = rows[1]["Symbol"] /\ records[2].symbol = rows[3]["Symbol"]
====
